---- MODULE Spec2Model ----
(***************************************************************************)
(* Medical report analyzer: the /api/analyze handler of app.py and the     *)
(* MedicalReportProcessor pipeline of model.py (OCR extraction, streamed   *)
(* chat completion, highlights parsing).                                   *)
(*                                                                         *)
(* A Python str is a sequence of one-character strings.  Characters that   *)
(* are not plain ASCII carry their code point as their name.               *)
(***************************************************************************)
EXTENDS Integers, Sequences, FiniteSets, TLC

VARIABLES
    \* app.py: process-wide state, the event loop, the requests, the disk
    processor, running, req, files, keyPresent,
    \* model.py, process_medical_report on one image
    ocr_result, p_pc, p_raw_text, analyzer_args, p_result,
    \* model.py, _get_groq_response / analyze_with_llm on one stream
    completion, s_pc, returned, highlights

appVars == <<processor, running, req, files, keyPresent>>
procVars == <<ocr_result, p_pc, p_raw_text, analyzer_args, p_result>>
llmVars == <<completion, s_pc, returned, highlights>>
vars == <<processor, running, req, files, keyPresent,
          ocr_result, p_pc, p_raw_text, analyzer_args, p_result,
          completion, s_pc, returned, highlights>>

----------------------------------------------------------------------------
\* Bounds of the model
MaxReq == 2          \* concurrent /api/analyze requests
MaxChunks == 3       \* fragments of one streamed completion
MaxHlChunks == 4     \* fragments of one streamed highlights completion
MaxRegions == 2      \* text regions the OCR engine reports
MaxRegionLen == 2    \* characters of one region's text

----------------------------------------------------------------------------
\* Characters
NL == "\n"
TAB == "\t"
SP == " "
HYPHEN == "-"
COMMA == ","
BULLET == "U+2022"
ACIRC == "U+00E2"
EURO == "U+20AC"
CENT == "U+00A2"

\* str.strip() with no argument removes whitespace
Whitespace == {SP, TAB, NL}

\* the argument of h.strip(...) in analyze_with_llm, as the file is encoded:
\* hyphen, U+00E2, U+20AC, U+00A2, space, tab
HighlightStripChars == {HYPHEN, ACIRC, EURO, CENT, SP, TAB}

----------------------------------------------------------------------------
\* Python str operations

Range(s) == {s[i] : i \in DOMAIN s}

Min(a, b) == IF a < b THEN a ELSE b

RECURSIVE LStrip(_, _)
LStrip(s, cs) ==
    IF s # <<>> /\ Head(s) \in cs THEN LStrip(Tail(s), cs) ELSE s

RECURSIVE RStrip(_, _)
RStrip(s, cs) ==
    IF s # <<>> /\ s[Len(s)] \in cs
    THEN RStrip(SubSeq(s, 1, Len(s) - 1), cs)
    ELSE s

\* s.strip(cs)
Strip(s, cs) == RStrip(LStrip(s, cs), cs)

\* s.strip()
StripWs(s) == Strip(s, Whitespace)

\* s.split(sep), sep one character
RECURSIVE Split(_, _)
Split(s, sep) ==
    IF sep \notin Range(s)
    THEN <<s>>
    ELSE LET i == CHOOSE k \in DOMAIN s :
                     s[k] = sep /\ \A j \in 1..(k - 1) : s[j] # sep
         IN <<SubSeq(s, 1, i - 1)>> \o Split(SubSeq(s, i + 1, Len(s)), sep)

\* s.splitlines(), for text whose only line break is "\n"
SplitLines(s) ==
    IF s = <<>>
    THEN <<>>
    ELSE LET parts == Split(s, NL)
         IN IF parts[Len(parts)] = <<>>
            THEN SubSeq(parts, 1, Len(parts) - 1)
            ELSE parts

\* sep.join(parts)
RECURSIVE Join(_, _)
Join(parts, sep) ==
    IF parts = <<>> THEN <<>>
    ELSE IF Len(parts) = 1 THEN parts[1]
    ELSE parts[1] \o <<sep>> \o Join(Tail(parts), sep)

\* all sequences over S of length at most n
RECURSIVE SeqsUpTo(_, _)
SeqsUpTo(S, n) ==
    IF n = 0 THEN {<<>>}
    ELSE LET shorter == SeqsUpTo(S, n - 1)
         IN shorter \cup {Append(s, x) : s \in shorter, x \in S}

----------------------------------------------------------------------------
\* _get_groq_response: one streamed fragment

\* The shapes a fragment can have:
\*   obj           SDK object, chunk.choices[0].delta.content is a str
\*   obj_none      SDK object, delta.content is None (role-only / final chunk)
\*   obj_nochoices SDK object with an empty choices list
\*   dict_delta    {"choices": [{"delta": {"content": s}}]}
\*   dict_text     {"text": s}
\*   dict_opaque   {"choices": [<not a mapping>], "text": s}
\*   junk          None, a str: neither attributes nor .get
Chunk(shape, content) == [shape |-> shape, content |-> content]

\* try: delta = chunk.choices[0].delta; if getattr(delta, "content", None): ...
AttrAccess(chunk) ==
    CASE chunk.shape = "obj" -> [raised |-> FALSE, text |-> chunk.content]
      [] chunk.shape = "obj_none" -> [raised |-> FALSE, text |-> <<>>]
      [] OTHER -> [raised |-> TRUE, text |-> <<>>]

\* except: try: if chunk.get("choices") and chunk["choices"][0].get("delta")
\*              and chunk["choices"][0]["delta"].get("content"): ...
MappingAccess(chunk) ==
    CASE chunk.shape = "dict_delta" -> [raised |-> FALSE, text |-> chunk.content]
      [] chunk.shape = "dict_text" -> [raised |-> FALSE, text |-> <<>>]
      [] OTHER -> [raised |-> TRUE, text |-> <<>>]

\* except: try: if chunk.get("text"): response_text += chunk.get("text")
\*         except: pass
TextAccess(chunk) ==
    CASE chunk.shape \in {"dict_text", "dict_opaque"} -> chunk.content
      [] OTHER -> <<>>

\* what one iteration of the loop appends to response_text
ChunkText(chunk) ==
    IF ~AttrAccess(chunk).raised THEN AttrAccess(chunk).text
    ELSE IF ~MappingAccess(chunk).raised THEN MappingAccess(chunk).text
    ELSE TextAccess(chunk)

RECURSIVE Assemble(_)
Assemble(chunks) ==
    IF chunks = <<>> THEN <<>>
    ELSE ChunkText(Head(chunks)) \o Assemble(Tail(chunks))

\* A completion is the fragments it delivers and whether the call or the
\* iteration raises (network error, non-2xx status).
Completion(chunks, fails) == [chunks |-> chunks, fails |-> fails]

GroqFailed == "Groq API call failed: "

\* _get_groq_response(messages, ...), given what the service streams
GetGroqResponse(c) ==
    IF c.fails
    THEN [ok |-> FALSE, text |-> <<>>, err |-> <<GroqFailed>>]
    ELSE [ok |-> TRUE, text |-> StripWs(Assemble(c.chunks)), err |-> <<>>]

----------------------------------------------------------------------------
\* analyze_with_llm: parsing of the highlights response

MaxHighlights == 5

NonBlank(h) == StripWs(h) # <<>>
StripDecoration(h) == Strip(h, HighlightStripChars)

\* [h.strip('-... \t') for h in lines if h.strip()]
RECURSIVE StripDecorationOfNonBlank(_)
StripDecorationOfNonBlank(lines) ==
    IF lines = <<>> THEN <<>>
    ELSE (IF NonBlank(Head(lines)) THEN <<StripDecoration(Head(lines))>> ELSE <<>>)
         \o StripDecorationOfNonBlank(Tail(lines))

\* [h.strip() for h in items if h.strip()]
RECURSIVE StripWsOfNonBlank(_)
StripWsOfNonBlank(items) ==
    IF items = <<>> THEN <<>>
    ELSE (IF NonBlank(Head(items)) THEN <<StripWs(Head(items))>> ELSE <<>>)
         \o StripWsOfNonBlank(Tail(items))

\* the branch taken when "\n" in highlights_text
NewlineItems(text) == StripDecorationOfNonBlank(SplitLines(text))

\* the branch taken otherwise
CommaItems(text) == StripWsOfNonBlank(Split(text, COMMA))

Limit_none(h) == h

\* highlights[:5]
Limit(h) == SubSeq(h, 1, Min(MaxHighlights, Len(h)))

ParseHighlights(highlights_text) ==
    LET split == IF highlights_text # <<>>
                 THEN IF NL \in Range(highlights_text)
                      THEN NewlineItems(highlights_text)
                      ELSE CommaItems(highlights_text)
                 ELSE <<>>
        items == IF split = <<>>
                 THEN IF highlights_text # <<>>
                      THEN <<highlights_text>>
                      ELSE <<>>
                 ELSE split
    IN Limit(items)

NoExplanation == <<"Unable to generate explanation.">>
LlmFailed == "LLM analysis (Groq) failed: "

\* the dictionary analyze_with_llm returns once both responses are in
AnalysisOf(explanation, highlights_text) ==
    [explanation |-> IF explanation # <<>> THEN explanation ELSE NoExplanation,
     highlights |-> ParseHighlights(highlights_text)]

\* analyze_with_llm(extracted_text), given the completions the service streams
\* for the explanation request and for the highlights request
AnalyzeWithLlm(explanationC, highlightsC) ==
    LET e == GetGroqResponse(explanationC)
        h == GetGroqResponse(highlightsC)
    IN IF ~e.ok
       THEN [ok |-> FALSE, err |-> <<LlmFailed>> \o e.err,
             explanation |-> <<>>, highlights |-> <<>>]
       ELSE IF ~h.ok
       THEN [ok |-> FALSE, err |-> <<LlmFailed>> \o h.err,
             explanation |-> <<>>, highlights |-> <<>>]
       ELSE [ok |-> TRUE, err |-> <<>>,
             explanation |-> AnalysisOf(e.text, h.text).explanation,
             highlights |-> AnalysisOf(e.text, h.text).highlights]

----------------------------------------------------------------------------
\* extract_text_from_image and process_medical_report

\* What Image.open(...).verify() and self.ocr.ocr(...) do for one image:
\*   verify_error  the file is not a decodable image
\*   engine_error  the OCR engine raises
\*   none          the engine returns None
\*   empty         the engine returns []
\*   page_none     the engine returns [None]
\*   page          the engine returns [[ [box, (text, confidence)], ... ]]
Ocr(kind, regions) == [kind |-> kind, regions |-> regions]

OcrFailed == "OCR extraction failed: "

ExtractTextFromImage(o) ==
    CASE o.kind \in {"verify_error", "engine_error"} ->
            [ok |-> FALSE, text |-> <<>>, err |-> <<OcrFailed, o.kind>>]
      [] o.kind \in {"none", "empty", "page_none"} ->
            [ok |-> TRUE, text |-> <<>>, err |-> <<>>]
      [] OTHER ->
            [ok |-> TRUE, err |-> <<>>,
             text |-> IF o.regions = <<>> THEN <<>> ELSE Join(o.regions, NL)]

NoText == <<"No text could be extracted from the image.">>

EmptyResult == [raw_text |-> <<>>, explanation |-> NoText, highlights |-> <<>>]

IsBlank_noStrip(raw_text) == raw_text = <<>>

\* not raw_text.strip()
IsBlank(raw_text) == StripWs(raw_text) = <<>>

----------------------------------------------------------------------------
\* Inputs

Hel == <<"H", "e", "l">>
Lo == <<"l", "o">>

\* fragments of a streamed completion, in every shape
StreamChunks ==
    {Chunk("obj", c) : c \in {Hel, Lo, <<SP>>, <<>>}}
    \cup {Chunk("dict_delta", c) : c \in {Hel, Lo}}
    \cup {Chunk("dict_text", c) : c \in {Hel, Lo}}
    \cup {Chunk("dict_opaque", Lo), Chunk("obj_none", <<>>),
          Chunk("obj_nochoices", <<>>), Chunk("junk", <<>>)}

ManyCommas == <<"a", COMMA, "a", COMMA, "a", COMMA>>
ManyLines == <<"a", NL, "a", NL, "a", NL>>

\* fragments of a highlights completion: single characters and two longer runs
HlChunks ==
    {Chunk("obj", <<c>>) : c \in {"a", HYPHEN, SP, COMMA, NL, BULLET, CENT}}
    \cup {Chunk("obj", ManyCommas), Chunk("obj", ManyLines)}

RegionTexts == SeqsUpTo({"a", SP, NL}, MaxRegionLen)

OcrOutcomes ==
    {Ocr(k, <<>>) : k \in {"verify_error", "engine_error", "none", "empty", "page_none"}}
    \cup {Ocr("page", rs) : rs \in SeqsUpTo(RegionTexts, MaxRegions)}

\* completions the remote service may stream for one request
ExplanationCompletions ==
    {Completion(<<>>, TRUE), Completion(<<>>, FALSE),
     Completion(<<Chunk("obj", Hel), Chunk("obj", Lo)>>, FALSE)}

HighlightsCompletions ==
    {Completion(<<>>, TRUE), Completion(<<>>, FALSE),
     Completion(<<Chunk("obj", <<HYPHEN, SP, "a", NL, HYPHEN, SP, "b">>)>>, FALSE),
     Completion(<<Chunk("obj", ManyCommas), Chunk("obj", ManyCommas)>>, FALSE)}

----------------------------------------------------------------------------
\* Initial values of the three groups of variables

AppInit ==
    /\ processor = 0
    /\ running = 0
    /\ req = <<>>
    /\ files = {}
    /\ keyPresent = TRUE

ProcInit ==
    /\ ocr_result = Ocr("none", <<>>)
    /\ p_pc = "start"
    /\ p_raw_text = <<>>
    /\ analyzer_args = <<>>
    /\ p_result = EmptyResult

LlmInit ==
    /\ completion = <<>>
    /\ s_pc = "streaming"
    /\ returned = <<>>
    /\ highlights = <<>>

----------------------------------------------------------------------------
\* _get_groq_response on one stream, fragment by fragment

\* the service delivers one more fragment
Deliver(chunks, max) ==
    /\ s_pc = "streaming"
    /\ Len(completion) < max
    /\ \E chunk \in chunks : completion' = Append(completion, chunk)
    /\ UNCHANGED <<s_pc, returned, highlights>>
    /\ UNCHANGED appVars /\ UNCHANGED procVars

\* the stream ends: return response_text.strip()
StreamEnd ==
    /\ s_pc = "streaming"
    /\ returned' = GetGroqResponse(Completion(completion, FALSE)).text
    /\ s_pc' = "returned"
    /\ UNCHANGED <<completion, highlights>>
    /\ UNCHANGED appVars /\ UNCHANGED procVars

\* the stream breaks: raise Exception("Groq API call failed: ...")
StreamError ==
    /\ s_pc = "streaming"
    /\ s_pc' = "raised"
    /\ UNCHANGED <<completion, returned, highlights>>
    /\ UNCHANGED appVars /\ UNCHANGED procVars

\* analyze_with_llm parses the highlights response it was returned
ParseReturned ==
    /\ s_pc = "returned"
    /\ highlights' = ParseHighlights(returned)
    /\ s_pc' = "parsed"
    /\ UNCHANGED <<completion, returned>>
    /\ UNCHANGED appVars /\ UNCHANGED procVars

StreamInit == AppInit /\ ProcInit /\ LlmInit
StreamNext == Deliver(StreamChunks, MaxChunks) \/ StreamEnd \/ StreamError
SpecStream == StreamInit /\ [][StreamNext]_vars

ParseNext == Deliver(HlChunks, MaxHlChunks) \/ StreamEnd \/ StreamError \/ ParseReturned
SpecParse == StreamInit /\ [][ParseNext]_vars

----------------------------------------------------------------------------
\* process_medical_report on one image

P_Extract ==
    /\ p_pc = "start"
    /\ LET x == ExtractTextFromImage(ocr_result)
       IN IF x.ok
          THEN p_raw_text' = x.text /\ p_pc' = "extracted"
          ELSE p_raw_text' = p_raw_text /\ p_pc' = "raised"
    /\ UNCHANGED <<ocr_result, analyzer_args, p_result>>
    /\ UNCHANGED appVars /\ UNCHANGED llmVars

P_ReturnEmpty ==
    /\ p_pc = "extracted"
    /\ IsBlank(p_raw_text)
    /\ p_result' = EmptyResult
    /\ p_pc' = "returned"
    /\ UNCHANGED <<ocr_result, p_raw_text, analyzer_args>>
    /\ UNCHANGED appVars /\ UNCHANGED llmVars

P_Analyze ==
    /\ p_pc = "extracted"
    /\ ~IsBlank(p_raw_text)
    /\ analyzer_args' = Append(analyzer_args, p_raw_text)
    /\ \E ec \in ExplanationCompletions, hc \in HighlightsCompletions :
         LET a == AnalyzeWithLlm(ec, hc)
         IN IF a.ok
            THEN /\ p_result' = [raw_text |-> p_raw_text,
                                 explanation |-> a.explanation,
                                 highlights |-> a.highlights]
                 /\ p_pc' = "returned"
            ELSE /\ p_result' = p_result
                 /\ p_pc' = "raised"
    /\ UNCHANGED <<ocr_result, p_raw_text>>
    /\ UNCHANGED appVars /\ UNCHANGED llmVars

ProcessInit ==
    /\ AppInit /\ LlmInit
    /\ ocr_result \in OcrOutcomes
    /\ p_pc = "start"
    /\ p_raw_text = <<>>
    /\ analyzer_args = <<>>
    /\ p_result = EmptyResult

ProcessNext == P_Extract \/ P_ReturnEmpty \/ P_Analyze
SpecProcess == ProcessInit /\ [][ProcessNext]_vars

----------------------------------------------------------------------------
\* app.py: POST /api/analyze

AllowedTypes == {"image/jpeg", "image/jpg", "image/png", "image/bmp", "image/tiff"}

\* 10 * 1024 * 1024
MaxUploadBytes == 10485760

TooLarge_never(n) == FALSE

\* len(contents) > 10 * 1024 * 1024
TooLarge(n) == n > MaxUploadBytes

InvalidType == <<"Invalid file type. Allowed types: ", "image/jpeg, image/jpg, image/png, image/bmp, image/tiff">>
FileTooLarge == <<"File too large. Maximum size is 10MB">>
ProcessFailed == "Failed to process medical report: "
KeyMissing == <<"GROQ_API_KEY", " not found in environment variables. Please set it in your .env file.">>
ClientFailed == "Failed to initialize Groq client: "

\* what the clients upload
UploadTypes == {"image/png", "application/pdf"}
UploadSizes == {MaxUploadBytes, MaxUploadBytes + 1}

\* what the OCR engine does for the images the clients upload
AppOcrOutcomes ==
    {Ocr("verify_error", <<>>), Ocr("page_none", <<>>),
     Ocr("page", <<<<SP>>>>), Ocr("page", <<<<"a">>, <<"b">>>>)}

Requests == 1..MaxReq

NoBody == [success |-> FALSE, raw_text |-> <<>>, explanation |-> <<>>, highlights |-> <<>>]
NoResponse == [status |-> 0, detail |-> <<>>, body |-> NoBody]
NoException == [kind |-> "none", status |-> 0, detail |-> <<>>]

\* raise HTTPException(status_code=status, detail=detail)
HTTPException(status, detail) == [kind |-> "HTTPException", status |-> status, detail |-> detail]
\* any other exception, str(e) = detail
Exception(detail) == [kind |-> "Exception", status |-> 0, detail |-> detail]

\* A request: where its coroutine stands, its inputs, the handler's locals,
\* the response, and a record of what happened to it.
NewRequest ==
    [pc |-> "new",
     content_type |-> "", size |-> 0,
     temp_file |-> FALSE,
     raw_text |-> <<>>, explanation |-> <<>>, result |-> EmptyResult,
     exc |-> NoException, pending |-> NoResponse, response |-> NoResponse,
     \* history
     failure |-> "none", ctor |-> "none", handle |-> 0, log |-> <<>>, unlink |-> "none"]

SpecInit ==
    /\ ProcInit /\ LlmInit
    /\ processor = 0
    /\ running = 0
    /\ req = [r \in Requests |-> NewRequest]
    /\ files = {}
    /\ keyPresent \in BOOLEAN

MayStep_threads(r, resuming) == TRUE

\* The handler is a coroutine on one event loop: a new or awaiting coroutine
\* is scheduled only when the loop is idle, and then runs alone up to its
\* next await or its end.
MayStep(r, resuming) == IF resuming THEN running = 0 ELSE running = r

Raise(r, e, why) == [req[r] EXCEPT !.pc = "except", !.exc = e, !.failure = why]

appRest == <<ocr_result, p_pc, p_raw_text, analyzer_args, p_result,
             completion, s_pc, returned, highlights>>

\* lines 78-89: the content type is checked, then the coroutine awaits file.read()
Arrive(r) ==
    /\ req[r].pc = "new"
    /\ MayStep(r, TRUE)
    /\ \E ct \in UploadTypes :
         IF ct \notin AllowedTypes
         THEN req' = [req EXCEPT ![r] =
                        [@ EXCEPT !.pc = "done", !.content_type = ct,
                                  !.failure = "type",
                                  !.response = [status |-> 400, detail |-> InvalidType,
                                                body |-> NoBody]]]
         ELSE req' = [req EXCEPT ![r] = [@ EXCEPT !.pc = "reading", !.content_type = ct]]
    /\ UNCHANGED <<processor, running, files, keyPresent>>
    /\ UNCHANGED appRest

\* line 89: file.read() returns the contents, or raises
ReadReturns(r) ==
    /\ req[r].pc = "reading"
    /\ MayStep(r, TRUE)
    /\ running' = r
    /\ \/ \E n \in UploadSizes :
            req' = [req EXCEPT ![r] = [@ EXCEPT !.pc = "sizecheck", !.size = n]]
       \/ req' = [req EXCEPT ![r] = Raise(r, Exception(<<"read failed">>), "read")]
    /\ UNCHANGED <<processor, files, keyPresent>>
    /\ UNCHANGED appRest

\* lines 92-93
CheckSize(r) ==
    /\ req[r].pc = "sizecheck"
    /\ MayStep(r, FALSE)
    /\ IF TooLarge(req[r].size)
       THEN req' = [req EXCEPT ![r] = Raise(r, HTTPException(400, FileTooLarge), "size")]
       ELSE req' = [req EXCEPT ![r] = [@ EXCEPT !.pc = "save"]]
    /\ UNCHANGED <<processor, running, files, keyPresent>>
    /\ UNCHANGED appRest

\* lines 96-99: the temporary file is created, written and closed
SaveTemp(r) ==
    /\ req[r].pc = "save"
    /\ MayStep(r, FALSE)
    /\ \/ \* NamedTemporaryFile raises: temp_file stays None
          /\ req' = [req EXCEPT ![r] = Raise(r, Exception(<<"cannot create file">>), "tmp_create")]
          /\ files' = files
       \/ \* write raises: the file exists
          /\ req' = [req EXCEPT ![r] =
                       [Raise(r, Exception(<<"cannot write file">>), "tmp_write")
                          EXCEPT !.temp_file = TRUE]]
          /\ files' = files \cup {r}
       \/ /\ req' = [req EXCEPT ![r] = [@ EXCEPT !.pc = "checkproc", !.temp_file = TRUE]]
          /\ files' = files \cup {r}
    /\ UNCHANGED <<processor, running, keyPresent>>
    /\ UNCHANGED appRest

\* line 103: if processor is None
CheckProcessor(r) ==
    /\ req[r].pc = "checkproc"
    /\ MayStep(r, FALSE)
    /\ req' = [req EXCEPT ![r] =
                 [@ EXCEPT !.pc = IF processor = 0 THEN "construct" ELSE "process"]]
    /\ UNCHANGED <<processor, running, files, keyPresent>>
    /\ UNCHANGED appRest

NewProcessor_noKeyCheck(ocrOk, key, clientOk) ==
    IF ~ocrOk
    THEN [ok |-> FALSE, kind |-> "ocr_engine_init", exc |-> Exception(<<"PaddleOCR failed">>)]
    ELSE [ok |-> TRUE, kind |-> "ok", exc |-> NoException]

\* MedicalReportProcessor.__init__: the OCR engine is built first, then the
\* credential is read, then the client is built
NewProcessor(ocrOk, key, clientOk) ==
    IF ~ocrOk
    THEN [ok |-> FALSE, kind |-> "ocr_engine_init", exc |-> Exception(<<"PaddleOCR failed">>)]
    ELSE IF ~key
    THEN [ok |-> FALSE, kind |-> "credential", exc |-> [Exception(KeyMissing) EXCEPT !.kind = "ValueError"]]
    ELSE IF ~clientOk
    THEN [ok |-> FALSE, kind |-> "client_init",
          exc |-> [Exception(<<ClientFailed, "cause">>) EXCEPT !.kind = "ValueError"]]
    ELSE [ok |-> TRUE, kind |-> "ok", exc |-> NoException]

\* lines 104-108: processor = MedicalReportProcessor(); a ValueError becomes
\* HTTPException(500, str(e)), the global is assigned only on success
Construct(r) ==
    /\ req[r].pc = "construct"
    /\ MayStep(r, FALSE)
    /\ \E ocrOk \in BOOLEAN, clientOk \in BOOLEAN :
         LET i == NewProcessor(ocrOk, keyPresent, clientOk)
         IN IF i.ok
            THEN /\ processor' = processor + 1
                 /\ req' = [req EXCEPT ![r] = [@ EXCEPT !.pc = "process", !.ctor = "ok"]]
            ELSE /\ processor' = processor
                 /\ req' = [req EXCEPT ![r] =
                              [Raise(r, IF i.exc.kind = "ValueError"
                                        THEN HTTPException(500, i.exc.detail)
                                        ELSE i.exc, i.kind)
                                 EXCEPT !.ctor = i.kind]]
    /\ UNCHANGED <<running, files, keyPresent>>
    /\ UNCHANGED appRest

AnalyzeNext_swallow(step, ok) ==
    IF step = "explain" THEN "highlights" ELSE IF ok THEN "respond" ELSE "except"

\* analyze_with_llm: one try block around both requests, no retry
AnalyzeNext(step, ok) ==
    IF ~ok THEN "except" ELSE IF step = "explain" THEN "highlights" ELSE "respond"

\* line 111 / 275: processor.process_medical_report(temp_file.name) starts
\* with extract_text_from_image
Extract(r) ==
    /\ req[r].pc = "process"
    /\ MayStep(r, FALSE)
    /\ \E o \in AppOcrOutcomes :
         LET x == ExtractTextFromImage(o)
         IN IF x.ok
            THEN req' = [req EXCEPT ![r] =
                           [@ EXCEPT !.pc = "checkempty", !.raw_text = x.text,
                                     !.handle = processor,
                                     !.log = Append(@, "ocr_ok")]]
            ELSE req' = [req EXCEPT ![r] =
                           [Raise(r, Exception(x.err), "extract")
                              EXCEPT !.handle = processor,
                                     !.log = Append(@, "ocr_failed")]]
    /\ UNCHANGED <<processor, running, files, keyPresent>>
    /\ UNCHANGED appRest

\* lines 277-282
CheckEmpty(r) ==
    /\ req[r].pc = "checkempty"
    /\ MayStep(r, FALSE)
    /\ IF IsBlank(req[r].raw_text)
       THEN req' = [req EXCEPT ![r] = [@ EXCEPT !.pc = "respond", !.result = EmptyResult]]
       ELSE req' = [req EXCEPT ![r] = [@ EXCEPT !.pc = "explain"]]
    /\ UNCHANGED <<processor, running, files, keyPresent>>
    /\ UNCHANGED appRest

\* lines 222-227: the explanation request
Explain(r) ==
    /\ req[r].pc = "explain"
    /\ MayStep(r, FALSE)
    /\ \E c \in ExplanationCompletions :
         LET g == GetGroqResponse(c)
         IN req' = [req EXCEPT ![r] =
                      [@ EXCEPT !.pc = AnalyzeNext("explain", g.ok),
                                !.explanation = g.text,
                                !.exc = IF g.ok THEN @ ELSE Exception(<<LlmFailed>> \o g.err),
                                !.failure = IF g.ok THEN @ ELSE "explanation",
                                !.log = Append(@, IF g.ok THEN "explanation_ok"
                                                          ELSE "explanation_failed")]]
    /\ UNCHANGED <<processor, running, files, keyPresent>>
    /\ UNCHANGED appRest

\* lines 230-254 and 287-291: the highlights request, parsing, the result
Highlights(r) ==
    /\ req[r].pc = "highlights"
    /\ MayStep(r, FALSE)
    /\ \E c \in HighlightsCompletions :
         LET g == GetGroqResponse(c)
             a == AnalysisOf(req[r].explanation, g.text)
         IN req' = [req EXCEPT ![r] =
                      [@ EXCEPT !.pc = AnalyzeNext("highlights", g.ok),
                                !.result = IF g.ok
                                           THEN [raw_text |-> req[r].raw_text,
                                                 explanation |-> a.explanation,
                                                 highlights |-> a.highlights]
                                           ELSE @,
                                !.exc = IF g.ok THEN @ ELSE Exception(<<LlmFailed>> \o g.err),
                                !.failure = IF g.ok THEN @ ELSE "highlights",
                                !.log = Append(@, IF g.ok THEN "highlights_ok"
                                                          ELSE "highlights_failed")]]
    /\ UNCHANGED <<processor, running, files, keyPresent>>
    /\ UNCHANGED appRest

\* lines 113-118
Respond(r) ==
    /\ req[r].pc = "respond"
    /\ MayStep(r, FALSE)
    /\ req' = [req EXCEPT ![r] =
                 [@ EXCEPT !.pc = "finally",
                           !.pending = [status |-> 200, detail |-> <<>>,
                                        body |-> [success |-> TRUE,
                                                  raw_text |-> req[r].result.raw_text,
                                                  explanation |-> req[r].result.explanation,
                                                  highlights |-> req[r].result.highlights]]]]
    /\ UNCHANGED <<processor, running, files, keyPresent>>
    /\ UNCHANGED appRest

Handled_noReraise(e) ==
    [status |-> 500, detail |-> <<ProcessFailed>> \o e.detail, body |-> NoBody]

\* lines 120-133: an HTTPException is re-raised, anything else becomes a 500
Handled(e) ==
    IF e.kind = "HTTPException"
    THEN [status |-> e.status, detail |-> e.detail, body |-> NoBody]
    ELSE [status |-> 500, detail |-> <<ProcessFailed>> \o e.detail, body |-> NoBody]

HandleException(r) ==
    /\ req[r].pc = "except"
    /\ MayStep(r, FALSE)
    /\ req' = [req EXCEPT ![r] = [@ EXCEPT !.pc = "finally", !.pending = Handled(req[r].exc)]]
    /\ UNCHANGED <<processor, running, files, keyPresent>>
    /\ UNCHANGED appRest

MustUnlink_onSuccessOnly(r) ==
    req[r].temp_file /\ r \in files /\ req[r].pending.status = 200

\* line 137: if temp_file and os.path.exists(temp_file.name)
MustUnlink(r) == req[r].temp_file /\ r \in files

\* lines 135-141: the finally block, after which the response goes out
Cleanup(r) ==
    /\ req[r].pc = "finally"
    /\ MayStep(r, FALSE)
    /\ running' = 0
    /\ IF MustUnlink(r)
       THEN \/ /\ files' = files \ {r}
               /\ req' = [req EXCEPT ![r] =
                            [@ EXCEPT !.pc = "done", !.unlink = "ok",
                                      !.response = req[r].pending]]
            \/ \* os.unlink raises; except: pass
               /\ files' = files
               /\ req' = [req EXCEPT ![r] =
                            [@ EXCEPT !.pc = "done", !.unlink = "failed",
                                      !.response = req[r].pending]]
       ELSE /\ files' = files
            /\ req' = [req EXCEPT ![r] =
                         [@ EXCEPT !.pc = "done", !.response = req[r].pending]]
    /\ UNCHANGED <<processor, keyPresent>>
    /\ UNCHANGED appRest

Next ==
    \E r \in Requests :
        \/ Arrive(r)
        \/ ReadReturns(r)
        \/ CheckSize(r)
        \/ SaveTemp(r)
        \/ CheckProcessor(r)
        \/ Construct(r)
        \/ Extract(r)
        \/ CheckEmpty(r)
        \/ Explain(r)
        \/ Highlights(r)
        \/ Respond(r)
        \/ HandleException(r)
        \/ Cleanup(r)

Spec == SpecInit /\ [][Next]_vars

----------------------------------------------------------------------------
\* Properties

Done(r) == req[r].pc = "done"
Mentions(detail, token) == token \in Range(detail)
ValidUpload(r) ==
    /\ req[r].content_type \in AllowedTypes
    /\ req[r].size # 0
    /\ req[r].size <= 10485760

\* the response a finished request must carry, given what happened before
\* the finally block ran
ExpectedResponse(r) ==
    IF req[r].exc = NoException
    THEN [status |-> 200, detail |-> <<>>,
          body |-> [success |-> TRUE,
                    raw_text |-> req[r].result.raw_text,
                    explanation |-> req[r].result.explanation,
                    highlights |-> req[r].result.highlights]]
    ELSE IF req[r].exc.kind = "HTTPException"
    THEN [status |-> req[r].exc.status, detail |-> req[r].exc.detail, body |-> NoBody]
    ELSE [status |-> 500, detail |-> <<ProcessFailed>> \o req[r].exc.detail, body |-> NoBody]

\* C1 as stated: once a request that created a temporary file has completed,
\* on whatever exit path, its temporary file no longer exists.
C1_TempFileGoneOnEveryPath ==
    \A r \in Requests : (Done(r) /\ req[r].temp_file) => r \notin files

\* C1 amended: a completed request that created a temporary file attempted
\* its deletion exactly once on every exit path; the file is gone unless that
\* deletion itself failed; a failed deletion is swallowed, the response is the
\* one decided before the finally block; a request that created no file
\* leaves none.
C1_TempFileDeletedUnlessUnlinkFails ==
    \A r \in Requests :
        /\ ~req[r].temp_file => (r \notin files /\ req[r].unlink = "none")
        /\ (Done(r) /\ req[r].temp_file) =>
              /\ req[r].unlink \in {"ok", "failed"}
              /\ (r \in files) <=> (req[r].unlink = "failed")
        /\ (Done(r) /\ req[r].failure # "type") => req[r].response = ExpectedResponse(r)

C1_Witness ==
    \E r \in Requests :
        /\ Done(r) /\ req[r].temp_file
        /\ req[r].failure = "highlights"
        /\ req[r].unlink = "ok" /\ r \notin files
        /\ \E q \in Requests :
              /\ Done(q) /\ req[q].unlink = "failed" /\ q \in files
              /\ req[q].response.status = 200

\* C2: an upload rejected by validation (content type outside the allow-list,
\* or more than 10 MiB) gets a 400, and for it no temporary file was created,
\* no processor was constructed and no OCR or LLM call was made.
C2_RejectedUploadTouchesNothing ==
    \A r \in Requests :
        (req[r].pc # "new" /\ (req[r].content_type \notin AllowedTypes
                                \/ req[r].size > 10485760)) =>
            /\ ~req[r].temp_file /\ r \notin files
            /\ req[r].ctor = "none" /\ req[r].handle = 0
            /\ req[r].log = <<>>
            /\ Done(r) => (req[r].response.status = 400 /\ req[r].response.body = NoBody)

C2_Witness ==
    \E r, q \in Requests :
        /\ Done(r) /\ req[r].size = 10485760 + 1 /\ req[r].response.status = 400
        /\ Done(q) /\ req[q].content_type = "application/pdf"
        /\ req[q].response.status = 400

\* C3: whenever process_medical_report returns an empty raw_text (no OCR
\* regions, or text that is empty or only whitespace) the result is exactly
\* the canned one and analyze_with_llm was never invoked; the analyzer is
\* only ever invoked with text that is non-empty after trimming.
C3_EmptyTextShortCircuits ==
    /\ (p_pc = "returned" /\ p_result.raw_text = <<>>) =>
          (p_result = [raw_text |-> <<>>,
                       explanation |-> <<"No text could be extracted from the image.">>,
                       highlights |-> <<>>]
           /\ analyzer_args = <<>>)
    /\ (p_pc = "returned"
        /\ StripWs(ExtractTextFromImage(ocr_result).text) = <<>>) =>
          (p_result.raw_text = <<>> /\ analyzer_args = <<>>)
    /\ \A i \in DOMAIN analyzer_args : StripWs(analyzer_args[i]) # <<>>
    /\ Len(analyzer_args) <= 1

C3_Witness ==
    /\ p_pc = "returned"
    /\ ocr_result.kind = "page" /\ Len(ocr_result.regions) = 2
    /\ p_raw_text # <<>>
    /\ p_result.raw_text = <<>>
    /\ analyzer_args = <<>>

\* the decorative characters the documentation lists
MIDDOT == "U+00B7"
Decorative == {HYPHEN, BULLET, MIDDOT, TAB, SP}

\* C4 as stated: no parsed highlight is empty and none begins with a
\* decorative character (hyphen, bullet, middle dot, tab, space), whether the
\* response was split on newlines or on commas.
C4_HighlightsCleanOfDecoration ==
    s_pc = "parsed" =>
        \A i \in DOMAIN highlights :
            highlights[i] # <<>> /\ Head(highlights[i]) \notin Decorative

\* C5: the parsed highlights list has between 0 and 5 items, whatever the
\* number of lines or comma-separated items, the fallback item included.
C5_AtMostFiveHighlights ==
    s_pc = "parsed" => Len(highlights) \in 0..5

C5_Witness ==
    /\ s_pc = "parsed"
    /\ Len(Split(returned, COMMA)) > 5
    /\ Len(highlights) = 5

\* C6 as stated: without the credential every valid upload fails with a 500
\* whose detail names GROQ_API_KEY, OCR extraction is never invoked and the
\* processor stays unset.
C6_MissingKeyAlwaysNamed ==
    ~keyPresent =>
        /\ processor = 0
        /\ \A r \in Requests :
              /\ req[r].log = <<>>
              /\ (Done(r) /\ ValidUpload(r)) =>
                    /\ req[r].response.status = 500
                    /\ Mentions(req[r].response.detail, "GROQ_API_KEY")

\* C6 amended: without the credential every valid upload fails with a 500,
\* OCR extraction is never invoked and the processor stays unset; the detail
\* names GROQ_API_KEY exactly when the request got as far as reading the
\* credential, that is unless writing the temporary file or building the
\* OCR engine raised first.
C6_MissingKeyNamedWhenReached ==
    ~keyPresent =>
        /\ processor = 0
        /\ \A r \in Requests :
              /\ req[r].log = <<>> /\ req[r].handle = 0 /\ req[r].ctor # "ok"
              /\ (Done(r) /\ ValidUpload(r)) =>
                    /\ req[r].response.status = 500
                    /\ req[r].failure \in {"tmp_create", "tmp_write",
                                           "ocr_engine_init", "credential"}
                    /\ Mentions(req[r].response.detail, "GROQ_API_KEY")
                          <=> (req[r].failure = "credential")

C6_Witness ==
    /\ ~keyPresent
    /\ \A r \in Requests :
          /\ Done(r) /\ ValidUpload(r)
          /\ req[r].failure = "credential"
          /\ req[r].response.status = 500
          /\ Mentions(req[r].response.detail, "GROQ_API_KEY")

\* C7: every request ends in one outcome: 400 exactly for a disallowed content
\* type or an oversized file, 500 with no success body for every other
\* failure, and otherwise success = true with raw_text, explanation and
\* highlights as process_medical_report returned them.
C7_StatusByFailureKind ==
    \A r \in Requests :
        Done(r) =>
            /\ req[r].response.status \in {200, 400, 500}
            /\ (req[r].response.status = 400) <=> (req[r].failure \in {"type", "size"})
            /\ (req[r].failure = "type") <=> (req[r].content_type \notin AllowedTypes)
            /\ (req[r].failure = "size") <=>
                  (req[r].content_type \in AllowedTypes /\ req[r].size > 10485760)
            /\ (req[r].failure \notin {"none", "type", "size"}) =>
                  (req[r].response.status = 500 /\ req[r].response.body = NoBody)
            /\ (req[r].failure = "none") <=> (req[r].response.status = 200)
            /\ (req[r].response.status = 200) =>
                  req[r].response.body = [success |-> TRUE,
                                          raw_text |-> req[r].result.raw_text,
                                          explanation |-> req[r].result.explanation,
                                          highlights |-> req[r].result.highlights]

C7_Witness ==
    \E r, q \in Requests :
        /\ Done(r) /\ req[r].failure = "size" /\ req[r].response.status = 400
        /\ Done(q) /\ req[q].failure = "none" /\ req[q].response.body.success
        /\ req[q].response.body.highlights # <<>>

\* C8: however concurrent requests interleave, the processor is constructed
\* successfully at most once, is never reassigned or reset once set, and
\* every request that processes uses that one handle.
C8_ProcessorConstructedOnce ==
    /\ processor \in {0, 1}
    /\ Cardinality({r \in Requests : req[r].ctor = "ok"}) <= 1
    /\ (\E r \in Requests : req[r].ctor = "ok") => processor = 1
    /\ \A r \in Requests : req[r].log # <<>> => (req[r].handle = 1 /\ processor = 1)

C8_Witness ==
    \E r, q \in Requests :
        /\ r # q
        /\ req[r].ctor = "ok" /\ Done(r)
        /\ req[q].ctor = "none" /\ req[q].pc = "checkempty" /\ req[q].handle = 1

\* C9 as stated: the string returned is the trimmed concatenation, in arrival
\* order, of the text payloads of the fragments, a payload being what any of
\* the three access shapes (attribute, mapping, plain text field) holds; a
\* fragment without one contributes nothing and aborts nothing.
RECURSIVE Concat(_)
Concat(parts) ==
    IF parts = <<>> THEN <<>> ELSE Head(parts) \o Concat(Tail(parts))

Payload(chunk) ==
    IF chunk.shape \in {"obj", "dict_delta", "dict_text", "dict_opaque"}
    THEN chunk.content
    ELSE <<>>

C9_ReturnsConcatenatedPayloads ==
    s_pc = "returned" =>
        returned = StripWs(Concat([i \in DOMAIN completion |-> Payload(completion[i])]))

\* C10: within a request OCR extraction, the explanation request and the
\* highlights request run in that order, each at most once, nothing runs
\* after a step failed, and the failure reaches the caller as a 500 carrying
\* its message.
C10_StepsOrderedOnceNoRetry ==
    \A r \in Requests :
        /\ req[r].log \in {<<>>,
                           <<"ocr_failed">>,
                           <<"ocr_ok">>,
                           <<"ocr_ok", "explanation_failed">>,
                           <<"ocr_ok", "explanation_ok">>,
                           <<"ocr_ok", "explanation_ok", "highlights_failed">>,
                           <<"ocr_ok", "explanation_ok", "highlights_ok">>}
        /\ (Done(r) /\ req[r].log # <<>>) =>
              LET last == req[r].log[Len(req[r].log)]
              IN /\ last = "ocr_failed" =>
                      /\ req[r].response.status = 500
                      /\ Mentions(req[r].response.detail, "OCR extraction failed: ")
                 /\ last \in {"explanation_failed", "highlights_failed"} =>
                      /\ req[r].response.status = 500
                      /\ Mentions(req[r].response.detail, "Groq API call failed: ")
                 /\ last # "explanation_ok"

C10_Witness ==
    \E r, q \in Requests :
        /\ Done(r) /\ req[r].log = <<"ocr_ok", "explanation_failed">>
        /\ req[r].response.status = 500
        /\ Done(q) /\ req[q].log = <<"ocr_ok", "explanation_ok", "highlights_ok">>

====
